---- MODULE Spec2Model ----
(***************************************************************************)
(* The anomaly-detection service of ml-services: the process-wide Active   *)
(* Pair (_current_anomaly_model, _current_scaler), the two persisted       *)
(* artifacts, and the calls detect_anomaly_data / train_anomaly_model,     *)
(* each run by a thread of the serving process, one source statement that  *)
(* touches shared state per step; beside it, model_utils (save_model,      *)
(* load_model, save_scaler, load_scaler), the frame builders and            *)
(* preprocess_data of data_preprocessing, and the AnomalyDetector class of  *)
(* models/anomaly_detector.py, each called on its own.                      *)
(***************************************************************************)
EXTENDS Integers, Sequences, FiniteSets, TLC

\* ------------------------------------------------------------------ bounds
NumThreads == 2
MaxTrains == 2
MaxBatch == 3

Threads == 1..NumThreads

\* ---------------------------------------------------------- feature schema
MONITORED_FEATURES == <<"temperature", "humidity", "pressure", "vibration">>

Width == Len(MONITORED_FEATURES)

\* ------------------------------------------------------------------- cells
\* A cell of a frame: a number (an exact rational n/d), the missing marker
\* (numpy's nan) or a non-numeric value (a str).
RECURSIVE GCD(_, _)
GCD(a, b) == IF b = 0 THEN a ELSE GCD(b, a % b)

Abs(x) == IF x < 0 THEN -x ELSE x

Num(n, d) ==
    LET g == GCD(Abs(n), d)
    IN  [k |-> "num", n |-> n \div g, d |-> d \div g]

Whole(n) == Num(n, 1)

NaN == [k |-> "nan", n |-> 0, d |-> 1]

Text == [k |-> "str", n |-> 0, d |-> 1]

IsNum(c) == c.k = "num"

RSub(a, b) == Num(a.n * b.d - b.n * a.d, a.d * b.d)

RAdd(a, b) == Num(a.n * b.d + b.n * a.d, a.d * b.d)

RAbs(a) == Num(Abs(a.n), a.d)

RLess(a, b) == a.n * b.d < b.n * a.d

RMax(a, b) == IF RLess(a, b) THEN b ELSE a

\* ---------------------------------------------------------------- inputs
R_normal == [temperature |-> Whole(20), humidity |-> Whole(50),
             pressure |-> Whole(10), vibration |-> Whole(1)]

R_outlier == [temperature |-> Whole(90), humidity |-> Whole(10),
              pressure |-> Whole(5), vibration |-> Whole(9)]

R_partial == [temperature |-> Whole(22), humidity |-> Whole(52),
              pressure |-> Whole(12), co2 |-> Whole(4)]

R_text == [temperature |-> Text, humidity |-> Whole(50),
           pressure |-> Whole(10), vibration |-> Whole(1)]

Batches == { <<>>, <<R_normal, R_outlier>>, <<R_normal, R_partial>>,
             <<R_normal, R_text>>, <<R_partial>> }

\* The detect calls made: sensor_id, timestamp, data.
Requests ==
    { <<"sensor123", "2023-01-01T12:00:00Z", R_normal>>,
      <<"sensor456", "2023-01-01T13:00:00Z", R_outlier>>,
      <<"sensor123", "2023-01-01T13:00:00Z", R_partial>>,
      <<"sensor456", "2023-01-01T12:00:00Z", R_text>> }

\* ----------------------------------------------------------- preprocessing
\* An element of a list is a mapping (a record of cells by key) or a scalar
\* (a cell).
IsScalar(x) == DOMAIN x = DOMAIN NaN

\* pd.DataFrame(list of dicts): one row per dict, one column per key met in
\* any of them, nan where a dict lacks the key. The order of these columns
\* plays no part below (the frame is indexed by name) and is not kept.
\* pd.DataFrame(list of scalars): one row per scalar, in the one column 0.
DataFrame(data_list) ==
    IF IsScalar(data_list[1])
    THEN [keys |-> {"0"},
          cell |-> [j \in 1..Len(data_list) |->
                      [key \in {"0"} |-> data_list[j]]]]
    ELSE LET keys == UNION {DOMAIN data_list[j] : j \in 1..Len(data_list)}
         IN  [keys |-> keys,
              cell |-> [j \in 1..Len(data_list) |->
                          [key \in keys |->
                             IF key \in DOMAIN data_list[j]
                             THEN data_list[j][key] ELSE NaN]]]

\* Mutant: a feature the input lacks is filled with 0.
WithFeatures_Zero(df) ==
    LET keys == df.keys \cup {MONITORED_FEATURES[i] : i \in 1..Width}
    IN  [keys |-> keys,
         cell |-> [j \in DOMAIN df.cell |->
                     [key \in keys |->
                        IF key \in df.keys THEN df.cell[j][key] ELSE Whole(0)]]]

\* for feature in MONITORED_FEATURES: if feature not in df.columns:
\*     df[feature] = np.nan
WithFeatures(df) ==
    LET keys == df.keys \cup {MONITORED_FEATURES[i] : i \in 1..Width}
    IN  [keys |-> keys,
         cell |-> [j \in DOMAIN df.cell |->
                     [key \in keys |->
                        IF key \in df.keys THEN df.cell[j][key] ELSE NaN]]]

\* df[columns]: the named columns, in the order named. A frame from here on
\* is its column names and its rows, each row a tuple in column order.
Select(df, columns) ==
    [columns |-> columns,
     rows |-> [j \in DOMAIN df.cell |->
                 [i \in 1..Len(columns) |-> df.cell[j][columns[i]]]]]

dataframe_from_dict(data) ==
    Select(WithFeatures(DataFrame(<< data >>)), MONITORED_FEATURES)

\* Mutant: the empty input gives a frame without columns.
dataframe_from_list_NoColumns(data_list) ==
    IF Len(data_list) = 0 THEN [columns |-> <<>>, rows |-> <<>>]
    ELSE Select(WithFeatures(DataFrame(data_list)), MONITORED_FEATURES)

dataframe_from_list(data_list) ==
    IF Len(data_list) = 0 THEN [columns |-> MONITORED_FEATURES, rows |-> <<>>]
    ELSE Select(WithFeatures(DataFrame(data_list)), MONITORED_FEATURES)

RECURSIVE SumCells(_, _, _)
SumCells(df, i, j) ==
    IF j = 0 THEN Whole(0)
    ELSE IF IsNum(df.rows[j][i]) THEN RAdd(SumCells(df, i, j - 1), df.rows[j][i])
    ELSE SumCells(df, i, j - 1)

Present(df, i) == {j \in 1..Len(df.rows) : IsNum(df.rows[j][i])}

\* Mutant: the sum of the present values is divided by the number of rows.
ColumnMean_OverAllRows(df, i) ==
    IF Present(df, i) = {} THEN NaN
    ELSE LET s == SumCells(df, i, Len(df.rows))
         IN  Num(s.n, s.d * Len(df.rows))

\* The mean of the present values of column i; nan when none is present.
ColumnMean(df, i) ==
    IF Present(df, i) = {} THEN NaN
    ELSE LET s == SumCells(df, i, Len(df.rows))
         IN  Num(s.n, s.d * Cardinality(Present(df, i)))

\* A column holding a str has dtype object: mean(numeric_only=True) skips it.
NumericColumn(df, i) == \A j \in 1..Len(df.rows) : df.rows[j][i].k # "str"

fillna_mean(df) ==
    [columns |-> df.columns,
     rows |-> [j \in 1..Len(df.rows) |->
                 [i \in 1..Len(df.columns) |->
                    IF df.rows[j][i].k = "nan" /\ NumericColumn(df, i)
                    THEN ColumnMean(df, i) ELSE df.rows[j][i]]]]

\* Of an array (the rows of a frame, or a scaled matrix).
HasText(X) == \E j \in 1..Len(X) : \E i \in 1..Width : X[j][i].k = "str"

HasNaN(X) == \E j \in 1..Len(X) : \E i \in 1..Width : X[j][i].k = "nan"

\* ------------------------------------------------------------- the objects
None == [kind |-> "none", id |-> 0, par |-> <<>>]

\* StandardScaler.fit: the per-column mean of the present values. Centering
\* is kept exactly; the division by the column's standard deviation (a
\* positive constant of the fitted scaler) is not represented.
FitScaler(df, id) ==
    [kind |-> "scaler", id |-> id,
     par |-> [i \in 1..Width |-> ColumnMean(df, i)]]

Transform(scaler, df) ==
    [j \in 1..Len(df.rows) |->
        [i \in 1..Width |->
            IF IsNum(df.rows[j][i]) /\ IsNum(scaler.par[i])
            THEN RSub(df.rows[j][i], scaler.par[i]) ELSE NaN]]

\* preprocess_data: [ok, err, data, scaler, filled, ran]. data is the array
\* returned and scaler the scaler returned with it; filled is the frame
\* handed to the scaler and ran the steps reached, in the order "frame",
\* "fillna", then "fit_transform" or "transform".
Failed(err, ran) ==
    [ok |-> FALSE, err |-> err, data |-> <<>>, scaler |-> None,
     filled |-> <<>>, ran |-> ran]

\* type is the Python type of data: isinstance(data, dict) and
\* isinstance(data, list) are all that is asked of it.
preprocess_data(data, type, scaler, train_scaler, id) ==
    IF type \notin {"dict", "list"} THEN Failed("ValueError", {})
    ELSE
    LET df0 == IF type = "list" THEN dataframe_from_list(data)
               ELSE dataframe_from_dict(data)
        df == fillna_mean(df0)
    IN  IF train_scaler
        THEN IF type # "list" THEN Failed("ValueError", {"frame", "fillna"})
             ELSE IF df.rows = <<>> \/ HasText(df.rows)
             THEN Failed("ValueError", {"frame", "fillna", "fit_transform"})
             ELSE LET s == FitScaler(df, id)
                  IN  [ok |-> TRUE, err |-> "", data |-> Transform(s, df),
                       scaler |-> s, filled |-> df.rows,
                       ran |-> {"frame", "fillna", "fit_transform"}]
        ELSE IF scaler = None THEN Failed("ValueError", {"frame", "fillna"})
             ELSE IF HasText(df.rows)
             THEN Failed("ValueError", {"frame", "fillna", "transform"})
             ELSE [ok |-> TRUE, err |-> "", data |-> Transform(scaler, df),
                   scaler |-> scaler, filled |-> df.rows,
                   ran |-> {"frame", "fillna", "transform"}]

\* --------------------------------------------------------------- estimator
\* The isolation-based estimator, reduced to a distance rule: a row's score
\* is the fitted offset minus the row's distance from the centre.
RECURSIVE Norm(_, _)
Norm(row, i) == IF i = 0 THEN Whole(0) ELSE RAdd(Norm(row, i - 1), RAbs(row[i]))

RECURSIVE MaxNorm(_, _)
MaxNorm(X, j) ==
    IF j = 0 THEN Whole(0) ELSE RMax(MaxNorm(X, j - 1), Norm(X[j], Width))

DetectorTrainable(X) == X # <<>> /\ ~HasNaN(X) /\ ~HasText(X)

DetectorTrain(X, id) ==
    [kind |-> "model", id |-> id, par |-> << MaxNorm(X, Len(X)) >>]

decision_function(model, X) ==
    [j \in 1..Len(X) |-> RSub(model.par[1], Norm(X[j], Width))]

predict(model, X) ==
    [j \in 1..Len(X) |->
        IF RLess(decision_function(model, X)[j], Whole(0)) THEN -1 ELSE 1]

Scorable(model, X) == model.kind = "model" /\ ~HasNaN(X)

\* --------------------------------------------------------------- the store
\* joblib.dump writes the object's class and its fitted parameters; here the
\* parameters go out as a stream of integers, three per cell: the cell's
\* tag, numerator and denominator.
CellCode(c) ==
    << IF c.k = "num" THEN 0 ELSE IF c.k = "nan" THEN 1 ELSE 2, c.n, c.d >>

RECURSIVE Flatten(_, _)
Flatten(par, i) ==
    IF i = 0 THEN <<>> ELSE Flatten(par, i - 1) \o CellCode(par[i])

Dump(obj) ==
    [cls |-> obj.kind, ident |-> obj.id, count |-> Len(obj.par),
     body |-> Flatten(obj.par, Len(obj.par))]

\* joblib.load: the stream read back; it raises on a stream cut short.
WellFormed(blob) == blob.cls # "" /\ Len(blob.body) = 3 * blob.count

CellAt(body, i) ==
    IF body[3 * i - 2] = 0 THEN Num(body[3 * i - 1], body[3 * i])
    ELSE IF body[3 * i - 2] = 1 THEN NaN ELSE Text

Undump(blob) ==
    [kind |-> blob.cls, id |-> blob.ident,
     par |-> [i \in 1..blob.count |-> CellAt(blob.body, i)]]

NoBlob == [cls |-> "", ident |-> 0, count |-> 0, body |-> <<>>]

\* A path of the file system: whether its directory exists, whether the file
\* exists, and what the file holds.
NoDir == [dir |-> FALSE, exists |-> FALSE, blob |-> NoBlob]

Absent == [dir |-> TRUE, exists |-> FALSE, blob |-> NoBlob]

Stored(obj) == [dir |-> TRUE, exists |-> TRUE, blob |-> Dump(obj)]

\* A file cut short by a dump that failed on the way (how much of it was
\* written plays no part).
Corrupt ==
    [dir |-> TRUE, exists |-> TRUE,
     blob |-> [cls |-> "", ident |-> 0, count |-> 1, body |-> <<>>]]

\* save_model / save_scaler: what the environment lets the call do. "ok":
\* the dump completes; "makedirs_failed": the directory cannot be created
\* (os.makedirs raises OSError, which is IOError; with exist_ok it returns
\* when the directory is there already); "untouched": joblib.dump raises
\* before it writes anything; "partial": it raises after it began to write.
SaveOutcomes == {"ok", "makedirs_failed", "untouched", "partial"}

\* Mutant: the model's parameters are written as whole numbers.
save_model_Lossy(file, model, outcome) ==
    LET rounded == [model EXCEPT
                       !.par = [i \in 1..Len(model.par) |->
                                  IF IsNum(model.par[i])
                                  THEN Whole(model.par[i].n \div model.par[i].d)
                                  ELSE model.par[i]]]
    IN  IF outcome = "makedirs_failed" /\ ~file.dir
        THEN [ok |-> FALSE, err |-> "IOError", file |-> file]
        ELSE IF outcome = "untouched"
        THEN [ok |-> FALSE, err |-> "IOError", file |-> [file EXCEPT !.dir = TRUE]]
        ELSE IF outcome = "partial"
        THEN [ok |-> FALSE, err |-> "IOError", file |-> Corrupt]
        ELSE [ok |-> TRUE, err |-> "", file |-> Stored(rounded)]

save_model(file, model, outcome) ==
    IF outcome = "makedirs_failed" /\ ~file.dir
    THEN [ok |-> FALSE, err |-> "IOError", file |-> file]
    ELSE IF outcome = "untouched"
    THEN [ok |-> FALSE, err |-> "IOError", file |-> [file EXCEPT !.dir = TRUE]]
    ELSE IF outcome = "partial"
    THEN [ok |-> FALSE, err |-> "IOError", file |-> Corrupt]
    ELSE [ok |-> TRUE, err |-> "", file |-> Stored(model)]

\* Mutant: the directory is not created; the dump fails where there is none.
save_scaler_NoMakedirs(file, scaler, outcome) ==
    IF ~file.dir
    THEN [ok |-> FALSE, err |-> "IOError", file |-> file]
    ELSE IF outcome = "untouched"
    THEN [ok |-> FALSE, err |-> "IOError", file |-> file]
    ELSE IF outcome = "partial"
    THEN [ok |-> FALSE, err |-> "IOError", file |-> Corrupt]
    ELSE [ok |-> TRUE, err |-> "", file |-> Stored(scaler)]

save_scaler(file, scaler, outcome) ==
    IF outcome = "makedirs_failed" /\ ~file.dir
    THEN [ok |-> FALSE, err |-> "IOError", file |-> file]
    ELSE IF outcome = "untouched"
    THEN [ok |-> FALSE, err |-> "IOError", file |-> [file EXCEPT !.dir = TRUE]]
    ELSE IF outcome = "partial"
    THEN [ok |-> FALSE, err |-> "IOError", file |-> Corrupt]
    ELSE [ok |-> TRUE, err |-> "", file |-> Stored(scaler)]

load_model(file) ==
    IF ~file.exists THEN [ok |-> FALSE, err |-> "FileNotFoundError", obj |-> None]
    ELSE IF ~WellFormed(file.blob) THEN [ok |-> FALSE, err |-> "IOError", obj |-> None]
    ELSE [ok |-> TRUE, err |-> "", obj |-> Undump(file.blob)]

\* Mutant: the path is not looked at first; joblib.load raises inside the
\* try on a missing file as on a bad one.
load_scaler_NoExistsCheck(file) ==
    IF ~file.exists \/ ~WellFormed(file.blob)
    THEN [ok |-> FALSE, err |-> "IOError", obj |-> None]
    ELSE [ok |-> TRUE, err |-> "", obj |-> Undump(file.blob)]

load_scaler(file) ==
    IF ~file.exists THEN [ok |-> FALSE, err |-> "FileNotFoundError", obj |-> None]
    ELSE IF ~WellFormed(file.blob) THEN [ok |-> FALSE, err |-> "IOError", obj |-> None]
    ELSE [ok |-> TRUE, err |-> "", obj |-> Undump(file.blob)]

\* Mutant: each global keeps what its own load gave.
StartupLoad_Independent(mfile, sfile) ==
    LET m == load_model(mfile)
        s == load_scaler(sfile)
    IN  [model |-> IF m.ok THEN m.obj ELSE None,
         scaler |-> IF m.ok /\ s.ok THEN s.obj ELSE None]

\* The module's startup load: the Active Pair it leaves.
StartupLoad(mfile, sfile) ==
    LET m == load_model(mfile)
        s == load_scaler(sfile)
    IN  IF m.ok /\ s.ok THEN [model |-> m.obj, scaler |-> s.obj]
        ELSE [model |-> None, scaler |-> None]

\* The error raised inside the startup's try block, "" when there is none:
\* load_scaler is reached only when load_model returned.
StartupError(mfile, sfile) ==
    IF ~load_model(mfile).ok THEN load_model(mfile).err
    ELSE IF ~load_scaler(sfile).ok THEN load_scaler(sfile).err
    ELSE ""

\* except FileNotFoundError / except Exception: what the two handlers catch.
Exceptions == {"FileNotFoundError", "IOError", "ValueError"}

StartupCaught(err) == err = "FileNotFoundError" \/ err \in Exceptions

\* ------------------------------------------------------------------- state
VARIABLES
    curModel,      \* _current_anomaly_model
    curScaler,     \* _current_scaler
    modelFile,     \* the artifact at MLConfig.ANOMALY_MODEL_PATH
    scalerFile,    \* the artifact at MLConfig.SCALER_PATH
    call,          \* per thread: the call it runs, its locals and its outcome
    nextId,        \* the number the next train call's objects are told by
    last,          \* the call that completed most recently
    committed      \* the pairs installed whole: by startup, by a full swap

vars == <<curModel, curScaler, modelFile, scalerFile, call, nextId, last,
          committed>>

NoResult == [status |-> "", message |-> ""]

Snapshot == [model |-> curModel, scaler |-> curScaler,
             modelFile |-> modelFile, scalerFile |-> scalerFile]

NoSnapshot == [model |-> None, scaler |-> None,
               modelFile |-> Absent, scalerFile |-> Absent]

Idle ==
    [pc |-> "idle", op |-> "none", sensor_id |-> "", timestamp |-> "",
     data |-> <<>>, processed |-> <<>>, scaler_used |-> None,
     model_scored |-> None, model_predicted |-> None, anomaly_score |-> NaN,
     new_scaler |-> None, new_model |-> None, id |-> 0,
     result |-> NoResult, error |-> "", cause |-> "", ran |-> {},
     path |-> "", obj |-> None, pre |-> NoSnapshot,
     type |-> "", train_scaler |-> FALSE, filled |-> <<>>,
     labels |-> <<>>, scores |-> <<>>]

Free(t) == call[t].pc = "idle"

Raise(c, error, cause) == [c EXCEPT !.pc = "raised", !.error = error, !.cause = cause]

\* The thread goes on with its call.
Continue(t, c) ==
    /\ call' = [call EXCEPT ![t] = c]
    /\ last' = last

\* The call ends, returning or raising: the thread is free again.
Finish(t, c) ==
    /\ call' = [call EXCEPT ![t] = Idle]
    /\ last' = c

\* The module's import, as a completed call: the error its try block met in
\* cause, and the error that left the import, if any, in error.
Startup(mfile, sfile) ==
    LET err == StartupError(mfile, sfile)
    IN  [Idle EXCEPT !.op = "startup",
                     !.pc = IF err = "" \/ StartupCaught(err)
                            THEN "returned" ELSE "raised",
                     !.error = IF err = "" \/ StartupCaught(err) THEN "" ELSE err,
                     !.cause = err,
                     !.ran = IF load_model(mfile).ok
                             THEN {"load_model", "load_scaler"}
                             ELSE {"load_model"},
                     !.pre = [model |-> None, scaler |-> None,
                              modelFile |-> mfile, scalerFile |-> sfile]]

\* A first start on a machine that holds nothing yet.
Init ==
    /\ modelFile = NoDir
    /\ scalerFile = NoDir
    /\ curModel = StartupLoad(NoDir, NoDir).model
    /\ curScaler = StartupLoad(NoDir, NoDir).scaler
    /\ call = [t \in Threads |-> Idle]
    /\ nextId = 1
    /\ last = Startup(NoDir, NoDir)
    /\ committed = {<<None, None>>}

\* ------------------------------------------------------ detect_anomaly_data
\* Mutant: the check looks at the model alone.
PairLoaded_ModelOnly(model, scaler) == ~(model = None)

PairLoaded(model, scaler) == ~(model = None \/ scaler = None)

\* Mutant: the inlier label is taken for the anomalous one.
DetectResult_Inverted(sensor_id, timestamp, prediction, anomaly_score) ==
    [sensor_id |-> sensor_id, timestamp |-> timestamp,
     is_anomaly |-> IF prediction = 1 THEN TRUE ELSE FALSE,
     anomaly_score |-> anomaly_score,
     monitored_features |-> MONITORED_FEATURES]

DetectResult(sensor_id, timestamp, prediction, anomaly_score) ==
    [sensor_id |-> sensor_id, timestamp |-> timestamp,
     is_anomaly |-> IF prediction = -1 THEN TRUE ELSE FALSE,
     anomaly_score |-> anomaly_score,
     monitored_features |-> MONITORED_FEATURES]

\* Mutant: a detect that finds no Active Pair loads the persisted artifacts.
DetectCall_LazyLoad(t, sensor_id, timestamp, data) ==
    /\ Free(t)
    /\ LET c == [Idle EXCEPT !.op = "detect", !.sensor_id = sensor_id,
                             !.timestamp = timestamp, !.data = data,
                             !.pre = Snapshot]
           p == StartupLoad(modelFile, scalerFile)
       IN  IF ~(curModel = None \/ curScaler = None)
           THEN /\ Continue(t, [c EXCEPT !.pc = "d_pre"])
                /\ UNCHANGED <<curModel, curScaler>>
           ELSE /\ curModel' = p.model
                /\ curScaler' = p.scaler
                /\ IF p.model = None
                   THEN Finish(t, Raise([c EXCEPT !.ran = {"load_model", "load_scaler"}],
                                        "ModelNotLoaded", ""))
                   ELSE Continue(t, [c EXCEPT !.pc = "d_pre",
                                              !.ran = {"load_model", "load_scaler"}])
    /\ UNCHANGED <<modelFile, scalerFile, nextId, committed>>

\* The call, up to the check of the Active Pair.
DetectCall(t, sensor_id, timestamp, data) ==
    /\ Free(t)
    /\ LET c == [Idle EXCEPT !.op = "detect", !.sensor_id = sensor_id,
                             !.timestamp = timestamp, !.data = data,
                             !.pre = Snapshot]
       IN  IF PairLoaded(curModel, curScaler)
           THEN Continue(t, [c EXCEPT !.pc = "d_pre"])
           ELSE Finish(t, Raise(c, "ModelNotLoaded", ""))
    /\ UNCHANGED <<curModel, curScaler, modelFile, scalerFile, nextId, committed>>

\* Mutant: the preprocessing error leaves the call as it was raised.
DetectPreprocess_Unwrapped(t) ==
    /\ call[t].pc = "d_pre"
    /\ LET r == preprocess_data(call[t].data, "dict", curScaler, FALSE, 0)
           c == [call[t] EXCEPT !.scaler_used = curScaler,
                                !.ran = @ \cup {"preprocess"}]
       IN  IF r.ok
           THEN Continue(t, [c EXCEPT !.pc = "d_score", !.processed = r.data])
           ELSE Finish(t, Raise(c, r.err, ""))
    /\ UNCHANGED <<curModel, curScaler, modelFile, scalerFile, nextId, committed>>

\* preprocess_data(data, scaler=_current_scaler)
DetectPreprocess(t) ==
    /\ call[t].pc = "d_pre"
    /\ LET r == preprocess_data(call[t].data, "dict", curScaler, FALSE, 0)
           c == [call[t] EXCEPT !.scaler_used = curScaler,
                                !.ran = @ \cup {"preprocess"}]
       IN  IF r.ok
           THEN Continue(t, [c EXCEPT !.pc = "d_score", !.processed = r.data])
           ELSE Finish(t, Raise(c, "PreprocessingFailed", r.err))
    /\ UNCHANGED <<curModel, curScaler, modelFile, scalerFile, nextId, committed>>

\* Mutant: the score comes from an estimator evaluated without a fixed seed.
DetectScore_Unseeded(t) ==
    /\ call[t].pc = "d_score"
    /\ \E noise \in {0, 1} :
         LET c == [call[t] EXCEPT !.model_scored = curModel,
                                  !.ran = @ \cup {"decision_function"}]
         IN  IF Scorable(curModel, call[t].processed)
             THEN Continue(t, [c EXCEPT !.pc = "d_pred",
                                        !.anomaly_score =
                                           RAdd(decision_function(curModel,
                                                   call[t].processed)[1],
                                                Whole(noise))])
             ELSE Finish(t, Raise(c, "ValueError", ""))
    /\ UNCHANGED <<curModel, curScaler, modelFile, scalerFile, nextId, committed>>

\* _current_anomaly_model.decision_function(processed_data)[0]
DetectScore(t) ==
    /\ call[t].pc = "d_score"
    /\ LET c == [call[t] EXCEPT !.model_scored = curModel,
                                !.ran = @ \cup {"decision_function"}]
       IN  IF Scorable(curModel, call[t].processed)
           THEN Continue(t, [c EXCEPT !.pc = "d_pred",
                                      !.anomaly_score =
                                         decision_function(curModel, call[t].processed)[1]])
           ELSE Finish(t, Raise(c, "ValueError", ""))
    /\ UNCHANGED <<curModel, curScaler, modelFile, scalerFile, nextId, committed>>

\* _current_anomaly_model.predict(processed_data)[0], and the return
DetectPredict(t) ==
    /\ call[t].pc = "d_pred"
    /\ Finish(t, [call[t] EXCEPT
                    !.model_predicted = curModel,
                    !.ran = @ \cup {"predict"},
                    !.pc = "returned",
                    !.result = DetectResult(call[t].sensor_id, call[t].timestamp,
                                            predict(curModel, call[t].processed)[1],
                                            call[t].anomaly_score)])
    /\ UNCHANGED <<curModel, curScaler, modelFile, scalerFile, nextId, committed>>

\* ------------------------------------------------------ train_anomaly_model
\* Mutant: the empty batch is not turned away.
NoHistoricalData_Never(historical_data) == FALSE

NoHistoricalData(historical_data) == historical_data = <<>>

TrainResult ==
    [status |-> "training_completed",
     message |-> "Anomaly model trained and saved successfully."]

\* The call, up to the check of the batch.
TrainCall(t, historical_data) ==
    /\ Free(t)
    /\ LET c == [Idle EXCEPT !.op = "train", !.data = historical_data,
                             !.pre = Snapshot]
       IN  IF NoHistoricalData(historical_data)
           THEN /\ Finish(t, Raise(c, "NoData", ""))
                /\ nextId' = nextId
           ELSE /\ nextId <= MaxTrains
                /\ Continue(t, [c EXCEPT !.pc = "t_pre", !.id = nextId])
                /\ nextId' = nextId + 1
    /\ UNCHANGED <<curModel, curScaler, modelFile, scalerFile, committed>>

\* preprocess_data(historical_data, train_scaler=True)
TrainPreprocess(t) ==
    /\ call[t].pc = "t_pre"
    /\ LET r == preprocess_data(call[t].data, "list", None, TRUE, call[t].id)
           c == [call[t] EXCEPT !.ran = @ \cup {"preprocess"}]
       IN  IF r.ok
           THEN Continue(t, [c EXCEPT !.pc = "t_fit", !.processed = r.data,
                                      !.new_scaler = r.scaler])
           ELSE Finish(t, Raise(c, "TrainingFailed", r.err))
    /\ UNCHANGED <<curModel, curScaler, modelFile, scalerFile, nextId, committed>>

\* IsolationForestAnomalyDetector(...) and its train(processed_data_array);
\* fault: the constructor or the fit raises for a reason of its own.
TrainFit(t) ==
    /\ call[t].pc = "t_fit"
    /\ \E fault \in BOOLEAN :
         LET c == [call[t] EXCEPT !.ran = @ \cup {"fit"}]
         IN  IF ~fault /\ DetectorTrainable(call[t].processed)
             THEN Continue(t, [c EXCEPT !.pc = "t_save_model",
                                        !.new_model =
                                           DetectorTrain(call[t].processed, call[t].id)])
             ELSE Finish(t, Raise(c, "TrainingFailed", "ValueError"))
    /\ UNCHANGED <<curModel, curScaler, modelFile, scalerFile, nextId, committed>>

\* Mutant: the new model is made the active one before it is persisted.
TrainSaveModel_AssignFirst(t) ==
    /\ call[t].pc = "t_save_model"
    /\ curModel' = call[t].new_model
    /\ \E outcome \in SaveOutcomes :
         LET r == save_model(modelFile, call[t].new_model, outcome)
             c == [call[t] EXCEPT !.ran = @ \cup {"save_model"}]
         IN  /\ modelFile' = r.file
             /\ IF r.ok
                THEN Continue(t, [c EXCEPT !.pc = "t_save_scaler"])
                ELSE Finish(t, Raise(c, "TrainingFailed", r.err))
    /\ UNCHANGED <<curScaler, scalerFile, nextId, committed>>

\* model_utils.save_model(new_anomaly_detector.model, ANOMALY_MODEL_PATH)
TrainSaveModel(t) ==
    /\ call[t].pc = "t_save_model"
    /\ \E outcome \in SaveOutcomes :
         LET r == save_model(modelFile, call[t].new_model, outcome)
             c == [call[t] EXCEPT !.ran = @ \cup {"save_model"}]
         IN  /\ modelFile' = r.file
             /\ IF r.ok
                THEN Continue(t, [c EXCEPT !.pc = "t_save_scaler"])
                ELSE Finish(t, Raise(c, "TrainingFailed", r.err))
    /\ UNCHANGED <<curModel, curScaler, scalerFile, nextId, committed>>

\* Mutant: the new model is made the active one once it is persisted, while
\* the scaler is still to be saved.
TrainSaveScaler_ModelAssigned(t) ==
    /\ call[t].pc = "t_save_scaler"
    /\ curModel' = call[t].new_model
    /\ \E outcome \in SaveOutcomes :
         LET r == save_scaler(scalerFile, call[t].new_scaler, outcome)
             c == [call[t] EXCEPT !.ran = @ \cup {"save_scaler"}]
         IN  /\ scalerFile' = r.file
             /\ IF r.ok
                THEN Continue(t, [c EXCEPT !.pc = "t_set_model"])
                ELSE Finish(t, Raise(c, "TrainingFailed", r.err))
    /\ UNCHANGED <<curScaler, modelFile, nextId, committed>>

\* model_utils.save_scaler(new_scaler, SCALER_PATH)
TrainSaveScaler(t) ==
    /\ call[t].pc = "t_save_scaler"
    /\ \E outcome \in SaveOutcomes :
         LET r == save_scaler(scalerFile, call[t].new_scaler, outcome)
             c == [call[t] EXCEPT !.ran = @ \cup {"save_scaler"}]
         IN  /\ scalerFile' = r.file
             /\ IF r.ok
                THEN Continue(t, [c EXCEPT !.pc = "t_set_model"])
                ELSE Finish(t, Raise(c, "TrainingFailed", r.err))
    /\ UNCHANGED <<curModel, curScaler, modelFile, nextId, committed>>

\* Mutant: the new model is not made the active one.
TrainSetModel_Skipped(t) ==
    /\ call[t].pc = "t_set_model"
    /\ Continue(t, [call[t] EXCEPT !.pc = "t_set_scaler"])
    /\ UNCHANGED <<curModel, curScaler, modelFile, scalerFile, nextId, committed>>

\* _current_anomaly_model = new_anomaly_detector.model
TrainSetModel(t) ==
    /\ call[t].pc = "t_set_model"
    /\ curModel' = call[t].new_model
    /\ Continue(t, [call[t] EXCEPT !.pc = "t_set_scaler"])
    /\ UNCHANGED <<curScaler, modelFile, scalerFile, nextId, committed>>

\* Mutant: the return comes before the scaler is made the active one.
TrainSetScaler_Forgotten(t) ==
    /\ call[t].pc = "t_set_scaler"
    /\ Finish(t, [call[t] EXCEPT !.pc = "returned", !.result = TrainResult])
    /\ committed' = committed \cup {<<call[t].new_model, call[t].new_scaler>>}
    /\ UNCHANGED <<curModel, curScaler, modelFile, scalerFile, nextId>>

\* _current_scaler = new_scaler, and the return
TrainSetScaler(t) ==
    /\ call[t].pc = "t_set_scaler"
    /\ curScaler' = call[t].new_scaler
    /\ Finish(t, [call[t] EXCEPT !.pc = "returned", !.result = TrainResult])
    /\ committed' = committed \cup {<<call[t].new_model, call[t].new_scaler>>}
    /\ UNCHANGED <<curModel, modelFile, scalerFile, nextId>>

\* ----------------------------------------------------------------- restart
\* The process ends with no call in progress, and a new one imports the
\* module.
Restart ==
    /\ \A t \in Threads : Free(t)
    /\ curModel' = StartupLoad(modelFile, scalerFile).model
    /\ curScaler' = StartupLoad(modelFile, scalerFile).scaler
    /\ call' = [t \in Threads |-> Idle]
    /\ last' = Startup(modelFile, scalerFile)
    /\ committed' = {<<StartupLoad(modelFile, scalerFile).model,
                       StartupLoad(modelFile, scalerFile).scaler>>}
    /\ UNCHANGED <<modelFile, scalerFile, nextId>>

\* ---------------------------------------------------------- specifications
Step(t) ==
    \/ DetectPreprocess(t)
    \/ DetectScore(t)
    \/ DetectPredict(t)
    \/ TrainPreprocess(t)
    \/ TrainFit(t)
    \/ TrainSaveModel(t)
    \/ TrainSaveScaler(t)
    \/ TrainSetModel(t)
    \/ TrainSetScaler(t)

\* Threads call and run in any interleaving.
Next ==
    \/ \E t \in Threads : \E q \in Requests : DetectCall(t, q[1], q[2], q[3])
    \/ \E t \in Threads : \E batch \in Batches : TrainCall(t, batch)
    \/ \E t \in Threads : Step(t)
    \/ Restart

Spec == Init /\ [][Next]_vars

\* One call at a time: a call begins only when no other is in progress.
Quiet == \A u \in Threads : Free(u)

SeqNext ==
    \/ \E t \in Threads : \E q \in Requests :
          Quiet /\ DetectCall(t, q[1], q[2], q[3])
    \/ \E t \in Threads : \E batch \in Batches : Quiet /\ TrainCall(t, batch)
    \/ \E t \in Threads : Step(t)
    \/ Restart

SeqSpec == Init /\ [][SeqNext]_vars

\* ------------------------------------------------- model_utils on its own
\* The two configured paths, as any caller of model_utils may use them.
StorePaths == {"ANOMALY_MODEL_PATH", "SCALER_PATH"}

FileAt(path) == IF path = "ANOMALY_MODEL_PATH" THEN modelFile ELSE scalerFile

\* The scaler and the model that a batch is fitted to.
FitPair(batch, id) ==
    LET df == fillna_mean(dataframe_from_list(batch))
        s == FitScaler(df, id)
    IN  [scaler |-> s, model |-> DetectorTrain(Transform(s, df), id)]

\* The fitted objects handed to the store.
StoreObjects ==
    { FitPair(<<R_normal, R_outlier>>, 1).model,
      FitPair(<<R_normal, R_outlier>>, 1).scaler,
      FitPair(<<R_partial>>, 2).scaler }

\* A call of model_utils, as a completed call; of a save, the state it
\* found is kept with it.
UtilCall(op, path, obj, r, fault) ==
    [Idle EXCEPT !.op = op, !.path = path, !.obj = obj,
                 !.pc = IF r.ok THEN "returned" ELSE "raised",
                 !.error = r.err, !.cause = fault,
                 !.pre = IF op \in {"save_model", "save_scaler"}
                         THEN Snapshot ELSE NoSnapshot]

UtilSaveModel(path, model, outcome) ==
    /\ \A t \in Threads : Free(t)
    /\ LET r == save_model(FileAt(path), model, outcome)
       IN  /\ modelFile' = IF path = "ANOMALY_MODEL_PATH" THEN r.file ELSE modelFile
           /\ scalerFile' = IF path = "SCALER_PATH" THEN r.file ELSE scalerFile
           /\ last' = UtilCall("save_model", path, model, r, outcome)
    /\ UNCHANGED <<curModel, curScaler, call, nextId, committed>>

UtilSaveScaler(path, scaler, outcome) ==
    /\ \A t \in Threads : Free(t)
    /\ LET r == save_scaler(FileAt(path), scaler, outcome)
       IN  /\ modelFile' = IF path = "ANOMALY_MODEL_PATH" THEN r.file ELSE modelFile
           /\ scalerFile' = IF path = "SCALER_PATH" THEN r.file ELSE scalerFile
           /\ last' = UtilCall("save_scaler", path, scaler, r, outcome)
    /\ UNCHANGED <<curModel, curScaler, call, nextId, committed>>

UtilLoadModel(path) ==
    /\ \A t \in Threads : Free(t)
    /\ LET r == load_model(FileAt(path))
       IN  last' = UtilCall("load_model", path, r.obj, r, "")
    /\ UNCHANGED <<curModel, curScaler, modelFile, scalerFile, call, nextId,
                   committed>>

UtilLoadScaler(path) ==
    /\ \A t \in Threads : Free(t)
    /\ LET r == load_scaler(FileAt(path))
       IN  last' = UtilCall("load_scaler", path, r.obj, r, "")
    /\ UNCHANGED <<curModel, curScaler, modelFile, scalerFile, call, nextId,
                   committed>>

\* Callers save to and load from the two paths in any order, and the
\* service is imported over what they left.
StoreNext ==
    \/ \E path \in StorePaths : \E obj \in StoreObjects :
          \E outcome \in SaveOutcomes : UtilSaveModel(path, obj, outcome)
    \/ \E path \in StorePaths : \E obj \in StoreObjects :
          \E outcome \in SaveOutcomes : UtilSaveScaler(path, obj, outcome)
    \/ \E path \in StorePaths : UtilLoadModel(path)
    \/ \E path \in StorePaths : UtilLoadScaler(path)
    \/ Restart

StoreSpec == Init /\ [][StoreNext]_vars

\* -------------------------------------------- the frame builders on their own
R_unknown == [co2 |-> Whole(4), ph |-> Whole(7)]

R_sparse == [humidity |-> Whole(40), vibration |-> Text]

Readings == {R_normal, R_partial, R_text, R_unknown, R_sparse}

ReadingLists == UNION {[1..n -> Readings] : n \in 0..MaxBatch}

FrameFromDict(data) ==
    /\ last' = [Idle EXCEPT !.op = "dataframe_from_dict", !.pc = "returned",
                            !.data = data,
                            !.processed = dataframe_from_dict(data)]
    /\ UNCHANGED <<curModel, curScaler, modelFile, scalerFile, call, nextId,
                   committed>>

FrameFromList(data_list) ==
    /\ last' = [Idle EXCEPT !.op = "dataframe_from_list", !.pc = "returned",
                            !.data = data_list,
                            !.processed = dataframe_from_list(data_list)]
    /\ UNCHANGED <<curModel, curScaler, modelFile, scalerFile, call, nextId,
                   committed>>

FrameNext ==
    \/ \E data \in Readings : FrameFromDict(data)
    \/ \E data_list \in ReadingLists : FrameFromList(data_list)

FrameSpec == Init /\ [][FrameNext]_vars

\* ------------------------------------------------ preprocess_data on its own
\* Lists whose elements are not mappings, and values that are neither a dict
\* nor a list.
ScalarLists == { << Whole(1), Whole(2) >>, << Text >> }

Scalars == { Text, Whole(7) }

TypeOf(x) == IF x.k = "str" THEN "str" ELSE "int"

\* The scalers a caller passes: none, or one fitted before.
PrepScalers == { None, FitPair(<<R_normal, R_outlier>>, 1).scaler }

\* A caller about to call preprocess_data(data, scaler, train_scaler).
Called(data, type, scaler, train_scaler) ==
    /\ last = [Idle EXCEPT !.op = "preprocess_data", !.pc = "called",
                           !.data = data, !.type = type,
                           !.train_scaler = train_scaler,
                           !.scaler_used = scaler]
    /\ modelFile = NoDir
    /\ scalerFile = NoDir
    /\ curModel = None
    /\ curScaler = None
    /\ call = [t \in Threads |-> Idle]
    /\ nextId = 1
    /\ committed = {<<None, None>>}

PrepInit ==
    \/ \E data \in Readings : \E scaler \in PrepScalers :
          \E train_scaler \in BOOLEAN :
             Called(data, "dict", scaler, train_scaler)
    \/ \E data \in ReadingLists : \E scaler \in PrepScalers :
          \E train_scaler \in BOOLEAN :
             Called(data, "list", scaler, train_scaler)
    \/ \E data \in ScalarLists : \E scaler \in PrepScalers :
          \E train_scaler \in BOOLEAN :
             Called(data, "list", scaler, train_scaler)
    \/ \E data \in Scalars : \E scaler \in PrepScalers :
          \E train_scaler \in BOOLEAN :
             Called(data, TypeOf(data), scaler, train_scaler)

PreprocessCall ==
    /\ last.op = "preprocess_data"
    /\ last.pc = "called"
    /\ LET r == preprocess_data(last.data, last.type, last.scaler_used,
                                last.train_scaler, nextId)
       IN  last' = [last EXCEPT !.pc = IF r.ok THEN "returned" ELSE "raised",
                                !.error = r.err, !.processed = r.data,
                                !.new_scaler = r.scaler, !.filled = r.filled,
                                !.ran = r.ran]
    /\ UNCHANGED <<curModel, curScaler, modelFile, scalerFile, call, nextId,
                   committed>>

PrepNext == PreprocessCall

PrepSpec == PrepInit /\ [][PrepNext]_vars

\* ------------------------------------- the AnomalyDetector class on its own
\* One instance of models/anomaly_detector.py's AnomalyDetector, used by one
\* caller: here curModel and curScaler are its self.model and self.scaler,
\* modelFile and scalerFile the files at its MODEL_PATH and SCALER_PATH.

\* IsolationForest(...) / StandardScaler(): an estimator that is not fitted.
Unfitted(kind) == [kind |-> kind, id |-> 0, par |-> <<>>]

\* sklearn's check_is_fitted
Fitted(obj) == obj.kind \in {"model", "scaler"} /\ obj.par # <<>>

\* joblib.dump(obj, path), with no directory made first: "ok", "untouched"
\* and "partial" as in SaveOutcomes.
DumpOutcomes == {"ok", "untouched", "partial"}

joblib_dump(file, obj, outcome) ==
    IF ~file.dir
    THEN [ok |-> FALSE, err |-> "FileNotFoundError", file |-> file]
    ELSE IF outcome = "untouched"
    THEN [ok |-> FALSE, err |-> "OSError", file |-> file]
    ELSE IF outcome = "partial"
    THEN [ok |-> FALSE, err |-> "OSError", file |-> Corrupt]
    ELSE [ok |-> TRUE, err |-> "", file |-> Stored(obj)]

\* joblib.load(path)
joblib_load(file) ==
    IF ~file.exists
    THEN [ok |-> FALSE, err |-> "FileNotFoundError", obj |-> None]
    ELSE IF ~WellFormed(file.blob)
    THEN [ok |-> FALSE, err |-> "UnpicklingError", obj |-> None]
    ELSE [ok |-> TRUE, err |-> "", obj |-> Undump(file.blob)]

\* load_model(self): the model is assigned before the scaler is read.
AnomalyDetector_load_model(model, scaler, mfile, sfile) ==
    LET m == joblib_load(mfile)
        s == joblib_load(sfile)
    IN  IF ~m.ok
        THEN [ok |-> FALSE, err |-> m.err, model |-> model, scaler |-> scaler]
        ELSE IF ~s.ok
        THEN [ok |-> FALSE, err |-> s.err, model |-> m.obj, scaler |-> scaler]
        ELSE [ok |-> TRUE, err |-> "", model |-> m.obj, scaler |-> s.obj]

\* __init__(self)
AnomalyDetector_init(mfile, sfile) ==
    IF mfile.exists /\ sfile.exists
    THEN AnomalyDetector_load_model(None, None, mfile, sfile)
    ELSE [ok |-> TRUE, err |-> "", model |-> Unfitted("model"),
          scaler |-> Unfitted("scaler")]

\* save_model(self): the model is dumped, then the scaler.
AnomalyDetector_save_model(model, scaler, mfile, sfile, o1, o2) ==
    LET m == joblib_dump(mfile, model, o1)
        s == joblib_dump(sfile, scaler, o2)
    IN  IF ~m.ok
        THEN [ok |-> FALSE, err |-> m.err, mfile |-> m.file, sfile |-> sfile]
        ELSE [ok |-> s.ok, err |-> s.err, mfile |-> m.file, sfile |-> s.file]

\* df.dropna(): the rows that hold no missing value.
RECURSIVE dropna_rows(_, _)
dropna_rows(rows, j) ==
    IF j = 0 THEN <<>>
    ELSE IF \E i \in 1..Width : rows[j][i].k = "nan"
    THEN dropna_rows(rows, j - 1)
    ELSE Append(dropna_rows(rows, j - 1), rows[j])

dropna(df) == [columns |-> df.columns, rows |-> dropna_rows(df.rows, Len(df.rows))]

\* fillna(method='ffill'): a missing cell takes the last value above it.
RECURSIVE ffill_cell(_, _, _)
ffill_cell(rows, j, i) ==
    IF j = 0 THEN NaN
    ELSE IF rows[j][i].k # "nan" THEN rows[j][i]
    ELSE ffill_cell(rows, j - 1, i)

ffill(df) ==
    [columns |-> df.columns,
     rows |-> [j \in 1..Len(df.rows) |->
                 [i \in 1..Width |-> ffill_cell(df.rows, j, i)]]]

\* fillna(method='bfill'): a missing cell takes the first value below it.
RECURSIVE bfill_cell(_, _, _)
bfill_cell(rows, j, i) ==
    IF j > Len(rows) THEN NaN
    ELSE IF rows[j][i].k # "nan" THEN rows[j][i]
    ELSE bfill_cell(rows, j + 1, i)

bfill(df) ==
    [columns |-> df.columns,
     rows |-> [j \in 1..Len(df.rows) |->
                 [i \in 1..Width |-> bfill_cell(df.rows, j, i)]]]

\* self.scaler.fit(df_clean): StandardScaler.fit drops what an earlier fit
\* left, then reads the data, and raises on an empty or non-numeric frame.
scaler_fit(scaler, df, id) ==
    IF df.rows = <<>> \/ HasText(df.rows)
    THEN [ok |-> FALSE, err |-> "ValueError", scaler |-> Unfitted("scaler")]
    ELSE [ok |-> TRUE, err |-> "", scaler |-> FitScaler(df, id)]

\* self.model.fit(X_scaled); fault: the fit raises for a reason of its own.
\* A fit that raises leaves what an earlier fit gave.
model_fit(model, X, id, fault) ==
    IF fault THEN [ok |-> FALSE, err |-> "MemoryError", model |-> model]
    ELSE IF ~DetectorTrainable(X)
    THEN [ok |-> FALSE, err |-> "ValueError", model |-> model]
    ELSE [ok |-> TRUE, err |-> "", model |-> DetectorTrain(X, id)]

\* train(self, df, features), features being the schema:
\* [ok, err, model, scaler, mfile, sfile]
AnomalyDetector_train(model, scaler, mfile, sfile, df, id, fault, o1, o2) ==
    LET df_clean == dropna(df)
        sf == scaler_fit(scaler, df_clean, id)
        mf == model_fit(model, Transform(sf.scaler, df_clean), id, fault)
        sv == AnomalyDetector_save_model(mf.model, sf.scaler, mfile, sfile, o1, o2)
    IN  IF ~sf.ok
        THEN [ok |-> FALSE, err |-> sf.err, model |-> model,
              scaler |-> sf.scaler, mfile |-> mfile, sfile |-> sfile]
        ELSE IF ~mf.ok
        THEN [ok |-> FALSE, err |-> mf.err, model |-> mf.model,
              scaler |-> sf.scaler, mfile |-> mfile, sfile |-> sfile]
        ELSE [ok |-> sv.ok, err |-> sv.err, model |-> mf.model,
              scaler |-> sf.scaler, mfile |-> sv.mfile, sfile |-> sv.sfile]

NoLabels(err) == [ok |-> FALSE, err |-> err, labels |-> <<>>, scores |-> <<>>]

\* Mutant: what the estimators raise is swallowed and every row is labelled
\* normal.
AnomalyDetector_predict_Swallowed(model, scaler, df) ==
    IF model = None \/ scaler = None THEN NoLabels("Exception")
    ELSE [ok |-> TRUE, err |-> "",
          labels |-> [j \in 1..Len(df.rows) |-> 1],
          scores |-> [j \in 1..Len(df.rows) |-> Whole(0)]]

\* predict(self, df, features): [ok, err, labels, scores], the columns
\* 'anomaly' and 'anomaly_score' of the frame returned.
AnomalyDetector_predict(model, scaler, df) ==
    LET df_features == bfill(ffill(df))
        X_scaled == Transform(scaler, df_features)
    IN  IF model = None \/ scaler = None THEN NoLabels("Exception")
        ELSE IF ~Fitted(scaler) THEN NoLabels("NotFittedError")
        ELSE IF df_features.rows = <<>> \/ HasText(df_features.rows)
        THEN NoLabels("ValueError")
        ELSE IF ~Fitted(model) THEN NoLabels("NotFittedError")
        ELSE IF ~Scorable(model, X_scaled) THEN NoLabels("ValueError")
        ELSE [ok |-> TRUE, err |-> "", labels |-> predict(model, X_scaled),
              scores |-> decision_function(model, X_scaled)]

\* A call on the instance, as a completed call, with the state it found.
MethodCall(op, r) ==
    [Idle EXCEPT !.op = op, !.pc = IF r.ok THEN "returned" ELSE "raised",
                 !.error = r.err, !.pre = Snapshot]

\* An instance exists: the last construction returned.
Constructed == ~(last.op = "AnomalyDetector" /\ last.pc = "raised")

\* AnomalyDetector(): a new instance, in place of the one before.
Construct ==
    /\ LET r == AnomalyDetector_init(modelFile, scalerFile)
       IN  /\ curModel' = r.model
           /\ curScaler' = r.scaler
           /\ last' = MethodCall("AnomalyDetector", r)
    /\ UNCHANGED <<modelFile, scalerFile, call, nextId, committed>>

InstanceTrain(batch, fault, o1, o2) ==
    /\ Constructed
    /\ nextId <= MaxTrains
    /\ LET r == AnomalyDetector_train(curModel, curScaler, modelFile, scalerFile,
                                      dataframe_from_list(batch), nextId,
                                      fault, o1, o2)
       IN  /\ curModel' = r.model
           /\ curScaler' = r.scaler
           /\ modelFile' = r.mfile
           /\ scalerFile' = r.sfile
           /\ last' = [MethodCall("AnomalyDetector.train", r)
                          EXCEPT !.data = batch, !.id = nextId]
    /\ nextId' = nextId + 1
    /\ UNCHANGED <<call, committed>>

InstancePredict(batch) ==
    /\ Constructed
    /\ LET r == AnomalyDetector_predict(curModel, curScaler,
                                        dataframe_from_list(batch))
       IN  last' = [MethodCall("AnomalyDetector.predict", r)
                       EXCEPT !.data = batch, !.labels = r.labels,
                              !.scores = r.scores]
    /\ UNCHANGED <<curModel, curScaler, modelFile, scalerFile, call, nextId,
                   committed>>

InstanceSave(o1, o2) ==
    /\ Constructed
    /\ LET r == AnomalyDetector_save_model(curModel, curScaler, modelFile,
                                           scalerFile, o1, o2)
       IN  /\ modelFile' = r.mfile
           /\ scalerFile' = r.sfile
           /\ last' = MethodCall("AnomalyDetector.save_model", r)
    /\ UNCHANGED <<curModel, curScaler, call, nextId, committed>>

InstanceLoad ==
    /\ Constructed
    /\ LET r == AnomalyDetector_load_model(curModel, curScaler, modelFile,
                                           scalerFile)
       IN  /\ curModel' = r.model
           /\ curScaler' = r.scaler
           /\ last' = MethodCall("AnomalyDetector.load_model", r)
    /\ UNCHANGED <<modelFile, scalerFile, call, nextId, committed>>

\* The instance is constructed on a machine that holds no artifact, with or
\* without the models directory.
InstanceInit ==
    \E file \in {NoDir, Absent} :
       /\ modelFile = file
       /\ scalerFile = file
       /\ curModel = AnomalyDetector_init(file, file).model
       /\ curScaler = AnomalyDetector_init(file, file).scaler
       /\ call = [t \in Threads |-> Idle]
       /\ nextId = 1
       /\ last = [Idle EXCEPT !.op = "AnomalyDetector", !.pc = "returned",
                              !.pre = [model |-> None, scaler |-> None,
                                       modelFile |-> file, scalerFile |-> file]]
       /\ committed = {<<None, None>>}

InstanceNext ==
    \/ Construct
    \/ \E batch \in Batches : \E fault \in BOOLEAN :
          \E o1 \in DumpOutcomes : \E o2 \in DumpOutcomes :
             InstanceTrain(batch, fault, o1, o2)
    \/ \E batch \in Batches : InstancePredict(batch)
    \/ \E o1 \in DumpOutcomes : \E o2 \in DumpOutcomes : InstanceSave(o1, o2)
    \/ InstanceLoad

InstanceSpec == InstanceInit /\ [][InstanceNext]_vars

\* ------------------------------------------------------------------ claims
TrainPcs == {"t_pre", "t_fit", "t_save_model", "t_save_scaler",
             "t_set_model", "t_set_scaler"}

NoTrainRunning == \A t \in Threads : call[t].op # "train"

FailedTrain(c) == c.op = "train" /\ c.pc = "raised" /\ c.data # <<>>

\* What the call has used so far comes from the pair p.
UsesOnly(c, p) ==
    /\ c.scaler_used \in {None, p.scaler}
    /\ c.model_scored \in {None, p.model}
    /\ c.model_predicted \in {None, p.model}

\* C1: a train call on a non-empty batch that fails, at whatever stage,
\* leaves the Active Pair as it was before the call and raises the
\* training-failed error with its cause; a detect that follows starts from
\* that earlier pair and uses nothing else.
C1_FailedTrainKeepsActivePair ==
    /\ (FailedTrain(last) /\ NoTrainRunning) =>
          /\ curModel = last.pre.model
          /\ curScaler = last.pre.scaler
          /\ last.error = "TrainingFailed"
          /\ last.cause # ""
    /\ \A t \in Threads :
          (FailedTrain(last) /\ call[t].op = "detect") =>
             /\ call[t].pre.model = last.pre.model
             /\ call[t].pre.scaler = last.pre.scaler
             /\ UsesOnly(call[t], last.pre)
    /\ last.op = "detect" => UsesOnly(last, last.pre)

\* A train failed at save_scaler while a pair was active, and a detect that
\* followed it has reached its predict.
C1_Witness ==
    /\ FailedTrain(last)
    /\ "save_scaler" \in last.ran
    /\ last.pre.model # None
    /\ curModel = last.pre.model
    /\ \E t \in Threads : call[t].pc = "d_pred"

\* The artifact at a path: whether there is one, and what it holds.
Artifact(file) == [exists |-> file.exists, blob |-> file.blob]

\* C2: a failing train call leaves both persisted artifacts as they were
\* before the call.
C2_FailedTrainKeepsArtifacts ==
    (last.op = "train" /\ last.pc = "raised" /\ NoTrainRunning) =>
       /\ Artifact(modelFile) = Artifact(last.pre.modelFile)
       /\ Artifact(scalerFile) = Artifact(last.pre.scalerFile)

\* C3: the scaler a detect preprocesses with and the model it calls
\* decision_function and predict on belong to one pair, installed whole.
C3_DetectUsesOnePair ==
    (last.op = "detect" /\ last.pc = "returned") =>
       /\ last.model_scored = last.model_predicted
       /\ <<last.model_scored, last.scaler_used>> \in committed

\* C4: at most one train call is between the start of its preprocessing and
\* the end of its swap.
C4_AtMostOneTrain ==
    Cardinality({t \in Threads : call[t].pc \in TrainPcs}) <= 1

\* C5: with no call in progress, the Active Pair is empty or holds the model
\* and the scaler of one train call.
C5_ActivePairFromOneTrain ==
    Quiet =>
       \/ curModel = None /\ curScaler = None
       \/ /\ curModel.kind = "model"
          /\ curScaler.kind = "scaler"
          /\ curModel.id = curScaler.id

\* C6: a detect that finds the active model or the active scaler absent
\* raises the model-not-loaded error, having run no preprocessing and no
\* model call; no detect gets past its check with either absent.
C6_DetectRequiresActivePair ==
    /\ \A t \in Threads :
          call[t].op = "detect" =>
             call[t].pre.model # None /\ call[t].pre.scaler # None
    /\ (last.op = "detect" /\ (last.pre.model = None \/ last.pre.scaler = None)) =>
          /\ last.pc = "raised"
          /\ last.error = "ModelNotLoaded"
          /\ last.ran = {}
          /\ last.processed = <<>>

\* A detect was turned away while the model was set and the scaler not yet.
C6_Witness ==
    /\ last.op = "detect"
    /\ last.error = "ModelNotLoaded"
    /\ last.pre.model # None
    /\ last.pre.scaler = None

\* C7: a train call that returns gives the training-completed status and
\* leaves as Active Pair the scaler fitted on its batch and the model fitted
\* on that batch as scaled, both of this call.
C7_SuccessfulTrainInstallsItsPair ==
    (last.op = "train" /\ last.pc = "returned" /\ NoTrainRunning) =>
       LET df == fillna_mean(dataframe_from_list(last.data))
           s == FitScaler(df, last.id)
       IN  /\ last.result = [status |-> "training_completed",
                             message |-> "Anomaly model trained and saved successfully."]
           /\ last.data # <<>>
           /\ last.ran = {"preprocess", "fit", "save_model", "save_scaler"}
           /\ curScaler = s
           /\ curModel = DetectorTrain(Transform(s, df), last.id)
           /\ curModel = last.new_model
           /\ curScaler = last.new_scaler

\* A second train returned, over the pair of the first.
C7_Witness ==
    /\ last.op = "train"
    /\ last.pc = "returned"
    /\ last.pre.model # None
    /\ curModel # last.pre.model
    /\ NoTrainRunning

\* C8: a train call with an empty batch raises the no-data error, runs no
\* preprocessing, fitting or persistence step, and leaves the Active Pair
\* and the artifacts as they were; no train gets past its check with one.
C8_EmptyBatchRejected ==
    /\ \A t \in Threads : call[t].op = "train" => call[t].data # <<>>
    /\ (last.op = "train" /\ last.data = <<>>) =>
          /\ last.pc = "raised"
          /\ last.error = "NoData"
          /\ last.ran = {}
          /\ last.new_model = None /\ last.new_scaler = None
          /\ NoTrainRunning =>
                /\ curModel = last.pre.model /\ curScaler = last.pre.scaler
                /\ modelFile = last.pre.modelFile
                /\ scalerFile = last.pre.scalerFile

\* An empty batch was turned away while a pair was active.
C8_Witness ==
    /\ last.op = "train"
    /\ last.data = <<>>
    /\ last.error = "NoData"
    /\ curModel # None

DetectPcs == {"d_pre", "d_score", "d_pred"}

\* A step of a detect call: it passes its check, goes on or ends, or is
\* turned away at its check (no thread moves, and a detect has completed).
DetectStep ==
    \/ \E t \in Threads :
          \/ call[t].pc = "idle" /\ call'[t].pc = "d_pre"
          \/ call[t].pc \in DetectPcs /\ call'[t].pc \in DetectPcs \ {call[t].pc}
          \/ call[t].pc \in DetectPcs /\ call'[t].pc = "idle" /\ last'.op = "detect"
    \/ /\ \A t \in Threads : call'[t].pc = call[t].pc
       /\ last'.op = "detect"

StoreStages == {"save_model", "save_scaler", "load_model", "load_scaler"}

\* C9: no step of a detect call changes the Active Pair or an artifact, and
\* no detect call runs a model-store operation.
C9_DetectHasNoSideEffects ==
    [][ /\ DetectStep => UNCHANGED <<curModel, curScaler, modelFile, scalerFile>>
        /\ \A t \in Threads :
              call'[t].op = "detect" => call'[t].ran \cap StoreStages = {}
        /\ last'.op = "detect" => last'.ran \cap StoreStages = {}
      ]_vars

\* A detect returned while the artifacts of a saved pair were on disk.
C9_Witness ==
    /\ last.op = "detect"
    /\ last.pc = "returned"
    /\ modelFile.exists
    /\ scalerFile.exists

\* C10: a detect that returns gives is_anomaly true exactly when the model's
\* label for the processed reading is -1, the model's decision_function
\* value as anomaly_score, the sensor_id and timestamp it was given, and the
\* feature schema.
C10_DetectResult ==
    (last.op = "detect" /\ last.pc = "returned") =>
       LET X == Transform(last.scaler_used,
                          fillna_mean(dataframe_from_dict(last.data)))
       IN  /\ last.result.is_anomaly \in BOOLEAN
           /\ last.result.is_anomaly <=> (predict(last.model_predicted, X)[1] = -1)
           /\ last.result.anomaly_score = decision_function(last.model_scored, X)[1]
           /\ <<last.result.sensor_id, last.result.timestamp, last.data>> \in Requests
           /\ last.result.sensor_id = last.sensor_id
           /\ last.result.timestamp = last.timestamp
           /\ last.result.monitored_features =
                 <<"temperature", "humidity", "pressure", "vibration">>

\* A detect returned an anomaly.
C10_Witness ==
    /\ last.op = "detect"
    /\ last.pc = "returned"
    /\ last.result.is_anomaly = TRUE

\* C11: a detect that found the Active Pair present and whose preprocessing
\* raises ends with the preprocessing-failed error carrying that cause, has
\* called neither decision_function nor predict, and leaves the Active Pair
\* as it found it; the preprocessing-failed error is raised in no other case.
C11_PreprocessingFailureWrapped ==
    /\ (/\ last.op = "detect"
        /\ last.pre.model # None /\ last.pre.scaler # None
        /\ ~preprocess_data(last.data, "dict", last.pre.scaler, FALSE, 0).ok) =>
          /\ last.pc = "raised"
          /\ last.error = "PreprocessingFailed"
          /\ last.cause = "ValueError"
          /\ last.ran = {"preprocess"}
          /\ last.model_scored = None /\ last.model_predicted = None
          /\ last.result = NoResult
          /\ NoTrainRunning =>
                curModel = last.pre.model /\ curScaler = last.pre.scaler
    /\ (last.op = "detect" /\ last.error = "PreprocessingFailed") =>
          /\ last.pre.model # None /\ last.pre.scaler # None
          /\ HasText(dataframe_from_dict(last.data).rows)

\* A reading with a non-numeric value was turned away while a pair was active.
C11_Witness ==
    /\ last.op = "detect"
    /\ last.error = "PreprocessingFailed"
    /\ curModel # None /\ curScaler # None

\* The artifact is missing, or is there and does not deserialize.
LoadFails(file) == ~file.exists \/ ~WellFormed(file.blob)

\* C12: the startup load never lets an error out; if either artifact is
\* missing or does not deserialize it leaves both the model and the scaler
\* absent, also when the model loaded and only the scaler did not, and
\* otherwise it leaves both loaded.
C12_StartupLeavesPairWholeOrEmpty ==
    (last.op = "startup" /\ Quiet) =>
       /\ last.pc = "returned"
       /\ last.error = ""
       /\ modelFile = last.pre.modelFile /\ scalerFile = last.pre.scalerFile
       /\ IF LoadFails(modelFile) \/ LoadFails(scalerFile)
          THEN curModel = None /\ curScaler = None
          ELSE /\ curModel = Undump(modelFile.blob)
               /\ curScaler = Undump(scalerFile.blob)
               /\ curModel # None /\ curScaler # None

\* The service started over a good model artifact and a scaler artifact that
\* does not load.
C12_Witness ==
    /\ last.op = "startup"
    /\ Quiet
    /\ ~LoadFails(modelFile)
    /\ LoadFails(scalerFile)
    /\ curModel = None

\* C13: the detect that directly follows a train call that returned, on a
\* reading of that call's batch, does not raise the model-not-loaded error,
\* whatever the Active Pair was before the train.
C13_DetectAfterTrainFindsPair ==
    [][ (/\ last.op = "train" /\ last.pc = "returned"
         /\ last'.op = "detect"
         /\ \E j \in 1..Len(last.data) : last.data[j] = last'.data)
           => last'.error # "ModelNotLoaded"
      ]_vars

\* A train over an empty pair returned, and a detect on a reading of its
\* batch has passed the check.
C13_Witness ==
    /\ last.op = "train"
    /\ last.pc = "returned"
    /\ last.pre.model = None
    /\ \E t \in Threads :
          /\ call[t].op = "detect"
          /\ call[t].pc = "d_pre"
          /\ \E j \in 1..Len(last.data) : last.data[j] = call[t].data

Loads == {"load_model", "load_scaler"}

Saves == {"save_model", "save_scaler"}

\* C15 as stated: a load of a path that does not exist raises the not-found
\* error and returns no object, and the load of the pair raises the
\* not-found error if either artifact is absent.
C15_LoadMissingFailsNotFound ==
    /\ (last.op \in Loads /\ ~FileAt(last.path).exists) =>
          /\ last.pc = "raised"
          /\ last.error = "FileNotFoundError"
          /\ last.obj = None
    /\ (/\ last.op = "startup"
        /\ ~last.pre.modelFile.exists \/ ~last.pre.scalerFile.exists) =>
          /\ last.cause = "FileNotFoundError"
          /\ curModel = None /\ curScaler = None

\* C15 as amended: a load of a path that does not exist raises the not-found
\* error and returns no object; the load of the pair, model first, leaves no
\* object if either artifact is absent, raising the not-found error when
\* the model artifact is absent or when the model loads and the scaler
\* artifact is absent, and the corrupted error when the model artifact is
\* there and does not deserialize.
C15_LoadMissingFailsInLoadOrder ==
    /\ (last.op \in Loads /\ ~FileAt(last.path).exists) =>
          /\ last.pc = "raised"
          /\ last.error = "FileNotFoundError"
          /\ last.obj = None
    /\ (/\ last.op = "startup"
        /\ ~last.pre.modelFile.exists \/ ~last.pre.scalerFile.exists) =>
          /\ curModel = None /\ curScaler = None
          /\ IF ~last.pre.modelFile.exists
                THEN last.cause = "FileNotFoundError"
             ELSE IF ~WellFormed(last.pre.modelFile.blob)
                THEN last.cause = "IOError"
             ELSE last.cause = "FileNotFoundError"

\* load_scaler was called on a path that does not exist, beside an artifact
\* that does.
C15_Witness ==
    /\ last.op = "load_scaler"
    /\ ~FileAt(last.path).exists
    /\ last.error = "FileNotFoundError"
    /\ modelFile.exists \/ scalerFile.exists

\* C16: load_model / load_scaler raise the corrupted error on a file that
\* is there and does not deserialize, and what load_model returns is a
\* model, what load_scaler returns a scaler.
C16_LoadReturnsOnlyValidObjects ==
    /\ (/\ last.op \in Loads
        /\ FileAt(last.path).exists
        /\ ~WellFormed(FileAt(last.path).blob)) =>
          last.pc = "raised" /\ last.error = "IOError" /\ last.obj = None
    /\ (last.op = "load_model" /\ last.pc = "returned") =>
          last.obj.kind = "model"
    /\ (last.op = "load_scaler" /\ last.pc = "returned") =>
          last.obj.kind = "scaler"

\* The input the round trip is compared on.
RoundTripFrame == fillna_mean(dataframe_from_list(<<R_normal, R_outlier, R_partial>>))

RoundTripMatrix ==
    Transform(FitPair(<<R_normal, R_outlier>>, 1).scaler, RoundTripFrame)

PreFile(c) ==
    IF c.path = "ANOMALY_MODEL_PATH" THEN c.pre.modelFile ELSE c.pre.scalerFile

\* C18: a save that the environment lets through returns, whether or not
\* the directory was there, and leaves the directory and the artifact, which
\* holds the object; a save whose write fails raises IOError, after it made
\* the directory; a save never ends in another error.
C18_SaveCreatesDirAndReportsFailure ==
    last.op \in Saves =>
       /\ last.cause = "ok" => last.pc = "returned"
       /\ last.pc = "returned" =>
             /\ FileAt(last.path).dir
             /\ FileAt(last.path).exists
             /\ WellFormed(FileAt(last.path).blob)
             /\ Undump(FileAt(last.path).blob) = last.obj
       /\ last.cause \in {"untouched", "partial"} =>
             /\ last.pc = "raised"
             /\ last.error = "IOError"
             /\ FileAt(last.path).dir
       /\ (last.cause = "makedirs_failed" /\ ~PreFile(last).dir) =>
             last.pc = "raised" /\ last.error = "IOError"
       /\ last.pc = "raised" => last.error = "IOError"

\* save_scaler returned where there was no directory.
C18_Witness ==
    /\ last.op = "save_scaler"
    /\ last.pc = "returned"
    /\ ~PreFile(last).dir
    /\ FileAt(last.path).exists

\* The row of a reading: the schema's features in schema order, each with
\* the reading's value, or the missing marker where the reading has none.
SchemaRow(row, data) ==
    /\ Len(row) = 4
    /\ \A i \in 1..4 :
          LET feature == <<"temperature", "humidity", "pressure", "vibration">>[i]
          IN  IF feature \in DOMAIN data
              THEN row[i] = data[feature] ELSE row[i] = NaN

\* C19: the frame of a reading, and of a non-empty batch, has the schema's
\* columns in schema order and nothing else, and one row per reading, in
\* input order, each the reading's schema row.
C19_FrameFollowsSchema ==
    /\ last.op = "dataframe_from_dict" =>
          /\ last.processed.columns =
                <<"temperature", "humidity", "pressure", "vibration">>
          /\ Len(last.processed.rows) = 1
          /\ SchemaRow(last.processed.rows[1], last.data)
    /\ (last.op = "dataframe_from_list" /\ Len(last.data) > 0) =>
          /\ last.processed.columns =
                <<"temperature", "humidity", "pressure", "vibration">>
          /\ Len(last.processed.rows) = Len(last.data)
          /\ \A j \in 1..Len(last.data) :
                SchemaRow(last.processed.rows[j], last.data[j])

\* A batch was framed in which a reading has a key outside the schema and
\* lacks one of the schema, next to a reading that has all four.
C19_Witness ==
    /\ last.op = "dataframe_from_list"
    /\ Len(last.data) >= 2
    /\ \E j \in 1..Len(last.data) :
          "co2" \in DOMAIN last.data[j] /\ "vibration" \notin DOMAIN last.data[j]
    /\ \E j \in 1..Len(last.data) : "vibration" \in DOMAIN last.data[j]

\* C20: the frame of the empty sequence has no row, and the schema's columns
\* in schema order.
C20_EmptyListGivesEmptyFrame ==
    (last.op = "dataframe_from_list" /\ Len(last.data) = 0) =>
       /\ Len(last.processed.rows) = 0
       /\ last.processed.columns =
             <<"temperature", "humidity", "pressure", "vibration">>

\* The empty sequence was framed.
C20_Witness ==
    /\ last.op = "dataframe_from_list"
    /\ Len(last.data) = 0
    /\ Len(last.processed.columns) = 4

\* A call of preprocess_data whose input is neither a dict nor a list of
\* dicts: a value of another type, or a list of scalars.
NotMappings(c) ==
    \/ c.type \notin {"dict", "list"}
    \/ c.type = "list" /\ Len(c.data) > 0 /\ IsScalar(c.data[1])

\* C21: preprocess_data raises ValueError on every input that is neither a
\* single mapping nor a sequence of mappings, a list of non-mappings
\* included, and does so before the frame is filled or scaled.
C21_NonMappingInputRejected ==
    (last.op = "preprocess_data" /\ last.pc # "called"
        /\ NotMappings(last)) =>
        /\ last.pc = "raised"
        /\ last.error = "ValueError"
        /\ last.ran = {}

\* C25: in a batch that preprocess_data takes, every missing cell of a
\* column that has a present value is replaced by the mean of the present
\* values of that column in the batch, and every present cell keeps its
\* value, in the frame handed to the scaler.
C25_BatchFilledWithColumnMean ==
    (last.op = "preprocess_data" /\ last.type = "list"
        /\ last.pc = "returned") =>
        LET df == dataframe_from_list(last.data)
        IN  \A j \in 1..Len(df.rows) : \A i \in 1..Width :
               IF IsNum(df.rows[j][i])
               THEN last.filled[j][i] = df.rows[j][i]
               ELSE Present(df, i) # {} =>
                      LET c == last.filled[j][i]
                          s == SumCells(df, i, Len(df.rows))
                      IN  /\ IsNum(c)
                          /\ c.n * s.d * Cardinality(Present(df, i)) = s.n * c.d

\* A batch was taken in which a column has a missing cell and two present
\* values that differ from each other.
C25_Witness ==
    /\ last.op = "preprocess_data" /\ last.type = "list"
    /\ last.pc = "returned"
    /\ LET df == dataframe_from_list(last.data)
       IN  \E i \in 1..Width :
              /\ \E j \in 1..Len(df.rows) : df.rows[j][i].k = "nan"
              /\ \E j, h \in Present(df, i) : df.rows[j][i] # df.rows[h][i]

\* C26: for every input preprocess_data accepts, a single reading or a
\* batch, the frame handed to the scaler holds no missing value.
C26_NoMissingValueReachesScaler ==
    (last.op = "preprocess_data" /\ last.pc = "returned") =>
        ~HasNaN(last.filled)

\* C23: in a train call, a step assigns _current_anomaly_model or
\* _current_scaler only when the call has run both save_model and
\* save_scaler, both returned and the two artifacts hold the call's new
\* model and new scaler; what is assigned is that model, that scaler.
C23_AssignOnlyAfterBothSaved ==
    [][(~Quiet /\ (curModel' # curModel \/ curScaler' # curScaler)) =>
          \E t \in Threads :
             /\ call[t].op = "train"
             /\ {"save_model", "save_scaler"} \subseteq call[t].ran
             /\ modelFile = Stored(call[t].new_model)
             /\ scalerFile = Stored(call[t].new_scaler)
             /\ curModel' # curModel => curModel' = call[t].new_model
             /\ curScaler' # curScaler => curScaler' = call[t].new_scaler]_vars

\* A train call has assigned its model, after both saves, over a pair that
\* an earlier call installed.
C23_Witness ==
    \E t \in Threads :
       /\ call[t].pc = "t_set_scaler"
       /\ curModel = call[t].new_model
       /\ curScaler # call[t].new_scaler
       /\ curScaler # None
       /\ modelFile = Stored(call[t].new_model)
       /\ scalerFile = Stored(call[t].new_scaler)

\* Every train call that got past the check of its batch has returned: each
\* took a number and each left its pair in committed, beside the startup's.
AllTrainsReturned == Quiet /\ Cardinality(committed) = nextId

\* C28: when train calls, overlapping or not, have all completed, each of
\* them successfully, the two artifacts hold the model and the scaler of one
\* train call, and that pair is the Active Pair.
C28_ArtifactsAndPairFromOneTrain ==
    (AllTrainsReturned /\ last.op = "train" /\ last.pc = "returned") =>
        /\ modelFile.exists /\ scalerFile.exists
        /\ modelFile.blob.ident = scalerFile.blob.ident
        /\ modelFile = Stored(curModel)
        /\ scalerFile = Stored(curScaler)

\* C22: predict on an AnomalyDetector whose model and scaler were never
\* fitted (not by train, not by a load of persisted artifacts) raises the
\* estimator's not-fitted error, and no predict returns labels or scores
\* while the model or the scaler is unfitted.
C22_PredictBeforeTrainFails ==
    (last.op = "AnomalyDetector.predict") =>
        /\ (~Fitted(last.pre.model) /\ ~Fitted(last.pre.scaler)) =>
              (last.pc = "raised" /\ last.error = "NotFittedError")
        /\ (~Fitted(last.pre.model) \/ ~Fitted(last.pre.scaler)) =>
              (last.pc = "raised" /\ last.labels = <<>> /\ last.scores = <<>>)

\* predict was called with a well-formed batch on an instance constructed
\* without artifacts and never trained.
C22_Witness ==
    /\ last.op = "AnomalyDetector.predict"
    /\ last.pre.model = Unfitted("model")
    /\ last.pre.scaler = Unfitted("scaler")
    /\ last.data = <<R_normal, R_outlier>>
    /\ last.pc = "raised"

InstanceMethods ==
    {"AnomalyDetector.train", "AnomalyDetector.predict",
     "AnomalyDetector.save_model", "AnomalyDetector.load_model"}

\* C24: once the instance's model and scaler are both fitted (by train or
\* by a load), no call of train, predict, save_model or load_model on it,
\* returning or raising, leaves its model or its scaler absent or unfitted.
C24_NoTrainedToUninitialized ==
    [][(Fitted(curModel) /\ Fitted(curScaler)
          /\ last'.op \in InstanceMethods) =>
             (Fitted(curModel') /\ Fitted(curScaler'))]_vars

\* The model was fitted on data scaled by the scaler: both come from the
\* same train call.
Matching(model, scaler) ==
    Fitted(model) /\ Fitted(scaler) /\ model.id = scaler.id

FilesMatching(mfile, sfile) ==
    /\ mfile.exists /\ WellFormed(mfile.blob)
    /\ sfile.exists /\ WellFormed(sfile.blob)
    /\ Matching(Undump(mfile.blob), Undump(sfile.blob))

\* C27: when train raises on an instance that held a matching pair, the
\* instance's model and scaler are still a matching pair, and so are the
\* persisted model and scaler if they were one before.
C27_FailedTrainLeavesMatchingPair ==
    (last.op = "AnomalyDetector.train" /\ last.pc = "raised"
        /\ Matching(last.pre.model, last.pre.scaler)) =>
        /\ Matching(curModel, curScaler)
        /\ FilesMatching(last.pre.modelFile, last.pre.scalerFile) =>
              FilesMatching(modelFile, scalerFile)

====
